---- MODULE Spec2Model ----
(***************************************************************************)
(* The agent decision loop of agent_framework: Agent.run driving           *)
(* LLMClient.get_next_action (the Decision Client) and                     *)
(* BrowserAgent.execute_action (the Action Executor), with the run         *)
(* history kept by Agent.execute_action.                                   *)
(*                                                                         *)
(* Python values are modelled as follows.  A dict is a function whose      *)
(* domain is its key set (EmptyDict is {}); d.get(k, default) is Get.      *)
(* A str is a string, an f-string is the \o concatenation of its parts     *)
(* with ToString for formatted integers.  None in a string-typed slot is   *)
(* the string str(None) = "None"; None in the dict-typed slot `data` is    *)
(* NoData.  An optional local (a value that may not have been assigned)    *)
(* is a sequence of length 0 or 1.                                         *)
(*                                                                         *)
(* agent.py imports ImpossibleAction from actions.py and SCREENSHOT_DIR    *)
(* from config.py, and neither file defines the name.  The model takes the *)
(* module as loaded with both names provided, and describes the loop from  *)
(* there.                                                                  *)
(***************************************************************************)
EXTENDS Integers, Sequences, FiniteSets, TLC

\* ------------------------------------------------------------------ bounds
MaxSteps == 3
MaxRuns == 2
MaxHistory == 5

\* ------------------------------------------------------- Python primitives
None == "None"
EmptyDict == <<>>
NoData == <<>>
Get(d, k, default) == IF k \in DOMAIN d THEN d[k] ELSE default
Last(s) == s[Len(s)]

\* ------------------------------------------------------------- actions.py
DefaultAmount == 300
DefaultSeconds == 1
DefaultDoneResult == "Task completed successfully"

\* Action.to_dict: the record Agent.execute_action stores in the history.
to_dict(action) ==
    [action_type |-> action.action_type, parameters |-> action.parameters]

NavigateAction(url) ==
    [action_type |-> "navigate", parameters |-> [url |-> url]]
ClickAction(selector) ==
    [action_type |-> "click", parameters |-> [selector |-> selector]]
TypeAction(selector, text) ==
    [action_type |-> "type", parameters |-> [selector |-> selector, text |-> text]]
ScrollAction(direction, amount) ==
    [action_type |-> "scroll", parameters |-> [direction |-> direction, amount |-> amount]]
WaitAction(seconds) ==
    [action_type |-> "wait", parameters |-> [seconds |-> seconds]]
ExtractAction(selector, attribute) ==
    [action_type |-> "extract", parameters |-> [selector |-> selector, attribute |-> attribute]]
DoneAction(result) ==
    [action_type |-> "done", parameters |-> [result |-> result]]
\* ImpossibleAction is imported by agent.py but defined nowhere in the
\* sources; it is modelled from the data model of the specification
\* (done/impossible -> result: string, required).
ImpossibleAction(result) ==
    [action_type |-> "impossible", parameters |-> [result |-> result]]

\* ALL_ACTION_TYPES, the list the Decision Client validates against.
ALL_ACTION_TYPES ==
    {"navigate", "click", "type", "scroll", "wait", "extract", "done"}

\* The keyword parameters of each constructor: those without a default
\* (RequiredParams) and those with one (OptionalParams).
RequiredParams(action_type) ==
    CASE action_type = "navigate" -> {"url"}
      [] action_type = "click" -> {"selector"}
      [] action_type = "type" -> {"selector", "text"}
      [] action_type = "scroll" -> {"direction"}
      [] action_type = "wait" -> {"seconds"}
      [] action_type = "extract" -> {"selector"}
      [] action_type = "done" -> {}
      [] action_type = "impossible" -> {"result"}
OptionalParams(action_type) ==
    CASE action_type = "scroll" -> {"amount"}
      [] action_type = "extract" -> {"attribute"}
      [] action_type = "done" -> {"result"}
      [] OTHER -> {}

\* action_class(**action_params) raises TypeError unless every keyword is a
\* parameter of __init__ and every parameter without default is given.
\* The constructors check neither types nor values.
BindsOk(action_type, action_params) ==
    /\ RequiredParams(action_type) \subseteq DOMAIN action_params
    /\ DOMAIN action_params \subseteq
           RequiredParams(action_type) \cup OptionalParams(action_type)

\* action_class(**action_params) when the call binds.
Construct(action_type, action_params) ==
    CASE action_type = "navigate" -> NavigateAction(action_params.url)
      [] action_type = "click" -> ClickAction(action_params.selector)
      [] action_type = "type" ->
             TypeAction(action_params.selector, action_params.text)
      [] action_type = "scroll" ->
             ScrollAction(action_params.direction,
                          Get(action_params, "amount", DefaultAmount))
      [] action_type = "wait" -> WaitAction(action_params.seconds)
      [] action_type = "extract" ->
             ExtractAction(action_params.selector,
                           Get(action_params, "attribute", None))
      [] action_type = "done" ->
             DoneAction(Get(action_params, "result", DefaultDoneResult))
      [] action_type = "impossible" -> ImpossibleAction(action_params.result)

\* ----------------------------------------------------------------- llm.py
\* The outcome of a call: the value returned, or the exception raised.
Returned(v) == [raised |-> None, value |-> v]
Raised(e) == [raised |-> e, value |-> EmptyDict]

\* str(e) of the exception the remote exchange ends with (lines 142-155).
RemoteCause(remote) ==
    CASE remote.kind = "transport_error" -> "ConnectionError"
      [] remote.kind = "http_error" -> "HTTPError"
      [] remote.kind = "no_choices" -> "'choices'"
      [] remote.kind = "non_object" -> "'list' object has no attribute 'get'"
      [] OTHER -> ""

\* The synthetic error-shaped answers of lines 160-163, 168-171, 174-177.
InvalidTypeResponse(action_type) ==
    [action |-> [action_type |-> "error",
                 message |-> "Invalid action type: " \o action_type],
     reasoning |-> "Received invalid action type: " \o action_type]
InvalidJsonResponse ==
    [action |-> [action_type |-> "error",
                 message |-> "Invalid JSON response from LLM"],
     reasoning |-> "The response could not be parsed as JSON"]
ApiErrorResponse(cause) ==
    [action |-> [action_type |-> "error", message |-> cause],
     reasoning |-> "Error calling OpenRouter API: " \o cause]

\* Lines 141-177: the exchange with the remote endpoint and the validation
\* of its reply.  remote.kind is what the exchange produced: a transport
\* or HTTP error, a reply without choices, a content that is no JSON, a
\* JSON content that is no object, or a JSON object (remote.body).
ValidateReply(remote) ==
    IF remote.kind \in {"transport_error", "http_error", "no_choices", "non_object"}
    THEN ApiErrorResponse(RemoteCause(remote))
    ELSE IF remote.kind = "bad_json"
    THEN InvalidJsonResponse
    ELSE LET action_data == remote.body
             action == Get(action_data, "action", EmptyDict)
             action_type == Get(action, "action_type", None)
         IN  IF action_type \notin ALL_ACTION_TYPES
             THEN InvalidTypeResponse(action_type)
             ELSE action_data

\* LLMClient.get_next_action.  html and image are Python values given by
\* their type and truth value; the request is built before the try block:
\* _process_html slices a truthy html (line 78), and a truthy image that is
\* neither str nor bytes reaches self.log (line 118), which LLMClient does
\* not define.
get_next_action(prompt, image, html, remote) ==
    IF html.truthy /\ html.type \notin {"str", "bytes"}
    THEN Raised("TypeError")
    ELSE IF image.truthy /\ image.type \notin {"str", "bytes"}
    THEN Raised("AttributeError")
    ELSE Returned(ValidateReply(remote))

\* ------------------------------------------------------- browser_agent.py
\* str.lower on the directions the model uses.
Lower(s) == IF s = "DOWN" THEN "down" ELSE s

ActionResult(success, message, data) ==
    [success |-> success, message |-> message, data |-> data]

\* BrowserAgent.get_attribute: a missing element (NoSuchElementException,
\* TimeoutException) is swallowed into None; any other fault propagates.
get_attribute(env) ==
    IF env.fault = "TimeoutException" THEN Returned(None)
    ELSE IF env.fault # None THEN Raised(env.fault)
    ELSE Returned(env.attr)

\* Mutant of get_text: a missing element read as the empty text.
get_textSwallows(env) ==
    IF env.fault # None THEN Returned("") ELSE Returned(env.text)
\* BrowserAgent.get_text: find_element raises when the element is missing.
get_text(env) ==
    IF env.fault # None THEN Raised(env.fault) ELSE Returned(env.text)

\* The except branch of execute_action (lines 345-347).
ErrorResult(action_type, cause) ==
    ActionResult(FALSE, "Error executing " \o action_type \o ": " \o cause, NoData)

\* kwargs[k] for the first key of ks that kwargs lacks: str(KeyError(k)).
MissingKey(kwargs, ks) ==
    IF ks = <<>> THEN None
    ELSE LET missing == {i \in 1..Len(ks) : ks[i] \notin DOMAIN kwargs}
         IN  IF missing = {} THEN None
             ELSE "'" \o ks[CHOOSE i \in missing : \A j \in missing : i <= j] \o "'"

\* The try block of BrowserAgent.execute_action (lines 283-343): the result
\* it builds, or the exception an operation in it throws.  env is the
\* browser at the time of the call: env.fault is the exception the driver
\* operation throws (None when it succeeds), env.text and env.attr the
\* matched element's text and attribute value (attr None when the element
\* lacks the attribute), env.url and env.title the page after navigation.
Dispatch(action_type, kwargs, env) ==
    CASE action_type = "navigate" ->
           IF MissingKey(kwargs, <<"url">>) # None
           THEN Raised(MissingKey(kwargs, <<"url">>))
           ELSE IF env.fault # None THEN Raised(env.fault)
           ELSE Returned(ActionResult(TRUE, "Navigated to " \o kwargs.url,
                                      [url |-> env.url, title |-> env.title]))
      [] action_type = "click" ->
           IF MissingKey(kwargs, <<"selector">>) # None
           THEN Raised(MissingKey(kwargs, <<"selector">>))
           ELSE IF env.fault # None THEN Raised(env.fault)
           ELSE Returned(ActionResult(TRUE, "Clicked element: " \o kwargs.selector,
                                      [selector |-> kwargs.selector]))
      [] action_type = "type" ->
           IF MissingKey(kwargs, <<"selector", "text">>) # None
           THEN Raised(MissingKey(kwargs, <<"selector", "text">>))
           ELSE IF env.fault # None THEN Raised(env.fault)
           ELSE Returned(ActionResult(TRUE, "Typed text into " \o kwargs.selector,
                                      [selector |-> kwargs.selector,
                                       text_length |-> Len(kwargs.text)]))
      [] action_type = "scroll" ->
           LET direction == Get(kwargs, "direction", "down")
               amount == Get(kwargs, "amount", DefaultAmount)
           IN  IF Lower(direction) \in {"down", "up", "right", "left"}
                  /\ env.fault # None
               THEN Raised(env.fault)
               ELSE Returned(ActionResult(TRUE,
                        "Scrolled " \o direction \o " by " \o ToString(amount) \o "px",
                        [direction |-> direction, amount |-> amount]))
      [] action_type = "wait" ->
           LET seconds == Get(kwargs, "seconds", DefaultSeconds)
           IN  IF seconds < 0
               THEN Raised("sleep length must be non-negative")
               ELSE Returned(ActionResult(TRUE,
                        "Waited for " \o ToString(seconds) \o " seconds",
                        [seconds |-> seconds]))
      [] action_type = "extract" ->
           IF MissingKey(kwargs, <<"selector">>) # None
           THEN Raised(MissingKey(kwargs, <<"selector">>))
           ELSE LET selector == kwargs.selector
                    attribute == Get(kwargs, "attribute", None)
                    truthy == attribute \notin {None, ""}
                    got == IF truthy THEN get_attribute(env) ELSE get_text(env)
                IN  IF got.raised # None
                    THEN Raised(got.raised)
                    ELSE Returned(ActionResult(got.value # None,
                             "Extracted "
                               \o (IF truthy THEN "attribute " \o attribute ELSE "text")
                               \o " from " \o selector,
                             [value |-> got.value, selector |-> selector,
                              attribute |-> attribute]))
      [] OTHER ->
           Returned(ActionResult(FALSE, "Unknown action type: " \o action_type, NoData))

\* Mutant of browser_execute_action: a branch for the terminal kinds that
\* reports success.
browser_execute_actionTerminalOk(action_type, kwargs, env) ==
    IF action_type \in {"done", "impossible"}
    THEN Returned(ActionResult(TRUE, "Task finished", NoData))
    ELSE LET body == Dispatch(action_type, kwargs, env)
         IN  IF body.raised # None
             THEN Returned(ErrorResult(action_type, body.raised))
             ELSE body
\* BrowserAgent.execute_action(action_type, **kwargs): the try block under
\* its `except Exception` clause.
browser_execute_action(action_type, kwargs, env) ==
    LET body == Dispatch(action_type, kwargs, env)
    IN  IF body.raised # None
        THEN Returned(ErrorResult(action_type, body.raised))
        ELSE body

\* Mutant of Guarded: the call without its try block.
Unguarded(call) == call
\* `try: ... except Exception: pass` around a call (lines 249-253, 254-258).
Guarded(call) == IF call.raised # None THEN Returned(None) ELSE call

\* BrowserAgent.close: driver.quit() and service.stop(), each in its own
\* try block; quit_fault and stop_fault are what the two raise (None when
\* they succeed).
close(quit_fault, stop_fault) ==
    LET quit == Guarded(IF quit_fault # None THEN Raised(quit_fault)
                        ELSE Returned(None))
    IN  IF quit.raised # None
        THEN quit
        ELSE Guarded(IF stop_fault # None THEN Raised(stop_fault)
                     ELSE Returned(None))

\* ---------------------------------------------------------------- agent.py
VARIABLES
    max_steps,    \* self.max_steps, set by Agent.__init__
    history,      \* self.history
    runs,         \* the number of calls of Agent.run so far
    pc,           \* where Agent.run is: "idle" (not called yet), "loop" (between
                  \* two iterations of the for loop), "returned", "raised"
    initial_url,  \* the argument of the current run
    step,         \* the loop variable (0 before the first iteration)
    content,      \* this iteration's remote exchange (llm.py local), if any
    response,     \* this iteration's `response` local, if assigned
    result,       \* this iteration's `result` local, if assigned
    e,            \* the exception this iteration's except clause caught, if any
    outcome,      \* the dict the current run returned, if it has returned
    raised,       \* the exception the current run ended with, if any
    llm_calls,    \* the calls of self.llm.get_next_action in the current run
    scope,        \* the caller's hold on the Agent: "held", then "exited"
                  \* (the with block around it was left) or "dropped" (an
                  \* Agent used without a with block was let go)
    closed,       \* what self.browser.close() ended with, once called
    page,         \* the page the browser shows
    at,           \* the statement of the iteration Agent.run is at, when the
                  \* iteration is followed statement by statement
    page_context, \* the `context` local, once assigned
    prompt,       \* the `prompt` local, once composed
    request,      \* the arguments of this iteration's get_next_action call
    in_flight,    \* the calls made and not yet returned
    events,       \* what this iteration has done so far, in order
    fn_call,      \* a direct call of an adapter operation: its name and arguments
    fn_ret        \* what that call ended with, once made

agent_vars == <<max_steps, history, runs, pc, initial_url, step, content,
                response, result, e, outcome, raised, llm_calls, scope, closed>>
step_vars == <<page, at, page_context, prompt, request, in_flight, events>>
vars == <<agent_vars, step_vars, fn_call, fn_ret>>

\* The pages the browser may show.
PageA == [url |-> "https://example.test/", title |-> "Example",
          html |-> "<html>Example</html>", screenshot |-> "png:Example"]
PageB == [url |-> "https://example.test/next", title |-> "Next",
          html |-> "<html>Next</html>", screenshot |-> "png:Next"]
Pages == {PageA, PageB}

\* What the browser does to one capture: nothing, a fault of
\* take_screenshot (the inner try block), or a fault of the first driver
\* call (the outer try block).
CaptureFaults == {None, "screenshot", "driver"}

\* Agent.get_page_context on page p: the dict it returns (url, title, html
\* and screenshot of it).  It never raises.
get_page_context(p, fault) ==
    IF fault = "driver"
    THEN [url |-> "unknown", title |-> "Unknown", html |-> None, screenshot |-> None]
    ELSE [url |-> p.url, title |-> p.title, html |-> p.html,
          screenshot |-> IF fault = "screenshot" THEN None ELSE p.screenshot]

\* The keys of the action_classes mapping of Agent.run (lines 191-200).
action_classes ==
    {"navigate", "click", "type", "scroll", "wait", "extract", "done", "impossible"}

\* The terminal action kinds tested on line 212.
TerminalTypes == {"done", "impossible"}

\* The inputs of a run.  Python values passed to the Decision Client:
NoneValue == [type |-> "NoneType", truthy |-> FALSE]
StrValue == [type |-> "str", truthy |-> TRUE]

\* Agent.get_page_context never raises: a browser fault leaves html and
\* screenshot None, otherwise both are strings (page source, base64 PNG).
Contexts ==
    {[html |-> StrValue, screenshot |-> StrValue],
     [html |-> StrValue, screenshot |-> NoneValue],
     [html |-> NoneValue, screenshot |-> NoneValue]}

\* The browser as the Action Executor finds it.
EnvOK == [fault |-> None, text |-> "Hello", attr |-> "/next",
          url |-> "https://example.test/", title |-> "Example"]
EnvNoAttr == [EnvOK EXCEPT !.attr = None]
EnvTimeout == [EnvOK EXCEPT !.fault = "TimeoutException"]
EnvCrash == [EnvOK EXCEPT !.fault = "WebDriverException"]
LoopEnvs == {EnvOK, EnvTimeout}

\* The remote exchanges a run is driven with.
Json(body) == [kind |-> "json", body |-> body]
Failure(kind) == [kind |-> kind, body |-> EmptyDict]
Reply(action_type, parameters) ==
    Json([action |-> [action_type |-> action_type, parameters |-> parameters],
          reasoning |-> "because"])
LoopRemotes ==
    {Failure("transport_error"), Failure("bad_json"),
     Reply("click", [selector |-> "#go"]),
     Reply("click", EmptyDict),
     Reply("scroll", [direction |-> "sideways"]),
     Reply("done", [result |-> "found it"]),
     Reply("done", EmptyDict),
     Reply("done", [bogus |-> "x"]),
     Reply("impossible", [result |-> "no way"]),
     Reply("fly", EmptyDict),
     Json([action |-> [action_type |-> "click",
                       parameters |-> [selector |-> "#go"]]])}
InitialUrls == {None, "", "https://example.test/"}

\* Mutant of EntryStep: a zero-based step index.
EntryStepFromZero(h) == Len(h)
\* Line 125: the step index of a new history entry.
EntryStep(h) == Len(h) + 1

\* Mutant of agent_execute_action: the entry is appended before the browser
\* is called, without a result.
agent_execute_actionRecordsFirst(h, action, env) ==
    LET call == browser_execute_action(action.action_type, action.parameters, env)
        entered == Append(h, [step |-> EntryStep(h), action |-> to_dict(action)])
    IN  IF call.raised # None
        THEN [raised |-> call.raised, history |-> entered, result |-> <<>>]
        ELSE [raised |-> None, history |-> entered, result |-> <<call.value>>]
\* Agent.execute_action(action): run the action through the browser and
\* append the entry.  Yields the history afterwards and the result, or the
\* exception the browser call raised (nothing is appended then).
agent_execute_action(h, action, env) ==
    LET call == browser_execute_action(action.action_type, action.parameters, env)
    IN  IF call.raised # None
        THEN [raised |-> call.raised, history |-> h, result |-> <<>>]
        ELSE [raised |-> None,
              history |-> Append(h, [step |-> EntryStep(h),
                                     action |-> to_dict(action),
                                     result |-> call.value]),
              result |-> <<call.value>>]

\* Mutant of MultipleErrors: any recorded entry counts as a failure.
MultipleErrorsAnyEntry(h) == Len(h) > 0
\* Line 224: the test of the except clause.
MultipleErrors(h) ==
    /\ Len(h) > 0
    /\ ~Get(Get(Last(h), "result", EmptyDict), "success", FALSE)

\* The three return statements of Agent.run (lines 214, 226, 234).
TerminalOutcome(action_type, action_params, s) ==
    [success |-> (action_type = "done"),
     message |-> Get(action_params, "result", ""),
     steps |-> s]
\* Mutant of AbortOutcome: the abort reported as a success.
AbortOutcomeSucceeds(s, cause) ==
    [success |-> TRUE,
     message |-> "Agent failed after " \o ToString(s) \o " steps: " \o cause,
     steps |-> s]
AbortOutcome(s, cause) ==
    [success |-> FALSE,
     message |-> "Agent failed after " \o ToString(s) \o " steps: " \o cause,
     steps |-> s]
ExhaustedOutcome ==
    [success |-> FALSE,
     message |-> "Reached maximum number of steps (" \o ToString(max_steps)
                   \o ") without completing the task",
     steps |-> max_steps]

NoCall == [fn |-> "none"]

Init ==
    /\ max_steps \in 1..MaxSteps
    /\ history = <<>>
    /\ runs = 0
    /\ pc = "idle"
    /\ initial_url = None
    /\ step = 0
    /\ content = <<>>
    /\ response = <<>>
    /\ result = <<>>
    /\ e = <<>>
    /\ outcome = <<>>
    /\ raised = None
    /\ llm_calls = 0
    /\ scope = "held"
    /\ closed = <<>>
    /\ page = PageA
    /\ at = "top"
    /\ page_context = <<>>
    /\ prompt = <<>>
    /\ request = <<>>
    /\ in_flight = {}
    /\ events = <<>>
    /\ fn_call = NoCall
    /\ fn_ret = <<>>

\* Agent.run up to the for loop (lines 146-149): the initial navigation is
\* made outside any try block.
Start ==
    /\ pc \in {"idle", "returned", "raised"}
    /\ scope = "held"
    /\ runs < MaxRuns
    /\ Len(history) + 1 + max_steps <= MaxHistory
    /\ \E url \in InitialUrls, env \in LoopEnvs :
         LET nav == IF url \notin {None, ""}
                    THEN agent_execute_action(history, NavigateAction(url), env)
                    ELSE [raised |-> None, history |-> history, result |-> <<>>]
         IN  /\ initial_url' = url
             /\ history' = nav.history
             /\ raised' = nav.raised
             /\ pc' = IF nav.raised # None THEN "raised" ELSE "loop"
    /\ runs' = runs + 1
    /\ step' = 0
    /\ content' = <<>>
    /\ response' = <<>>
    /\ result' = <<>>
    /\ e' = <<>>
    /\ outcome' = <<>>
    /\ llm_calls' = 0
    /\ UNCHANGED <<max_steps, scope, closed, step_vars, fn_call, fn_ret>>

\* Mutant of HasNextStep: a loop bound that is one too far.
HasNextStepOffByOne(s) == s <= max_steps
\* Line 151: `for step in range(1, self.max_steps + 1)` has an iteration
\* after iteration s (after the loop's start when s = 0).
HasNextStep(s) == s < max_steps

\* The end of an iteration that did not return: the next iteration, or the
\* return after the loop (lines 233-239) when this was the last one.
Continue(s) ==
    IF HasNextStep(s)
    THEN pc' = "loop" /\ outcome' = <<>>
    ELSE pc' = "returned" /\ outcome' = <<ExhaustedOutcome>>

\* The locals of an iteration that got the Decision Client's answer
\* (lines 183-185).
ActionData(resp) == Get(resp, "action", EmptyDict)
ActionType(resp) == Get(ActionData(resp), "action_type", None)
ActionParams(resp) == Get(ActionData(resp), "parameters", EmptyDict)

\* Lines 158-168: the prompt reads self.history[-1] outside the try block.
StepPromptFault ==
    /\ pc = "loop" /\ HasNextStep(step)
    /\ history = <<>>
    /\ step' = step + 1
    /\ pc' = "raised"
    /\ raised' = "IndexError"
    /\ content' = <<>> /\ response' = <<>> /\ result' = <<>> /\ e' = <<>>
    /\ UNCHANGED <<max_steps, history, runs, initial_url, outcome, llm_calls,
                   scope, closed, step_vars, fn_call, fn_ret>>

\* The try block of an iteration (lines 170-219) on history h: what it ends
\* with ("skip": the continue of line 204; "raise": an exception, of cause
\* `cause`; "executed": falling out of the block; "terminal": the return of
\* line 214) and the locals and history it leaves.
TryEnd(kind, cause, h, resp, res) ==
    [kind |-> kind, cause |-> cause, history |-> h, response |-> resp, result |-> res]
\* Mutant of UnknownType: the mapping is indexed without the membership
\* test, so an unknown type raises KeyError into the except clause.
UnknownTypeRaises(h, resp) == TryEnd("raise", "KeyError", h, <<resp>>, <<>>)
\* Lines 202-204: an action type that is no key of action_classes is logged
\* and the iteration ends with `continue`.
UnknownType(h, resp) == TryEnd("skip", None, h, <<resp>>, <<>>)
TryBlock(h, remote, context, env) ==
    LET call == get_next_action("prompt", context.screenshot, context.html, remote)
    IN  IF call.raised # None
        THEN TryEnd("raise", call.raised, h, <<>>, <<>>)
        ELSE
        LET action_type == ActionType(call.value)
            action_params == ActionParams(call.value)
        IN  IF action_type \notin action_classes
            THEN UnknownType(h, call.value)
            ELSE IF ~BindsOk(action_type, action_params)
            THEN TryEnd("raise", "TypeError", h, <<call.value>>, <<>>)
            ELSE
            LET done == agent_execute_action(h, Construct(action_type, action_params), env)
            IN  IF done.raised # None
                THEN TryEnd("raise", done.raised, h, <<call.value>>, <<>>)
                ELSE TryEnd(IF action_type \in TerminalTypes
                            THEN "terminal" ELSE "executed",
                            None, done.history, <<call.value>>, done.result)

\* One iteration of the for loop whose try block ends with `kind`: the try
\* block, then the except clause (lines 221-231) or the step to the next
\* iteration.
Iteration(kind) ==
    /\ pc = "loop" /\ HasNextStep(step)
    /\ history # <<>>
    /\ \E remote \in LoopRemotes, context \in Contexts, env \in LoopEnvs :
         LET try == TryBlock(history, remote, context, env)
             s == step + 1
         IN  /\ try.kind = kind
             /\ content' = <<remote>>
             /\ response' = try.response
             /\ result' = try.result
             /\ history' = try.history
             /\ e' = IF kind = "raise" THEN <<try.cause>> ELSE <<>>
             /\ IF kind = "raise"
                THEN IF MultipleErrors(history)
                     THEN /\ pc' = "returned"
                          /\ outcome' = <<AbortOutcome(s, try.cause)>>
                     ELSE Continue(s)
                ELSE IF kind = "terminal"
                THEN /\ pc' = "returned"
                     /\ outcome' = <<TerminalOutcome(ActionType(try.response[1]),
                                                     ActionParams(try.response[1]), s)>>
                ELSE Continue(s)
    /\ step' = step + 1
    /\ llm_calls' = llm_calls + 1
    /\ UNCHANGED <<max_steps, runs, initial_url, raised, scope, closed,
                   step_vars, fn_call, fn_ret>>

StepSkip == Iteration("skip")
StepFault == Iteration("raise")
StepExecute == Iteration("executed")
StepTerminal == Iteration("terminal")

Next ==
    \/ Start
    \/ StepPromptFault
    \/ StepSkip
    \/ StepFault
    \/ StepExecute
    \/ StepTerminal

Spec == Init /\ [][Next]_vars

\* ------------------------------------- one iteration, statement by statement
\* StepSpec follows Agent.run through the statements of an iteration, with
\* the page free to change between any two of them.
StepRemotes ==
    {Failure("transport_error"),
     Reply("click", [selector |-> "#go"]),
     Reply("done", [result |-> "found it"]),
     Reply("done", [bogus |-> "x"])}

\* A str-or-None value as the Decision Client sees it.
PyValue(v) == IF v = None THEN NoneValue ELSE StrValue

\* The page changes under the Agent: a script, a redirect, a load that
\* completes, the effect of an executed action.
PageChanges ==
    /\ pc = "loop"
    /\ \E p \in Pages \ {page} : page' = p
    /\ UNCHANGED <<agent_vars, at, page_context, prompt, request, in_flight, events,
                   fn_call, fn_ret>>

\* Lines 151-155: the loop takes its next step and captures the page.
Perceive ==
    /\ pc = "loop" /\ at = "top" /\ HasNextStep(step)
    /\ step' = step + 1
    /\ \E fault \in CaptureFaults : page_context' = <<get_page_context(page, fault)>>
    /\ events' = <<"snapshot">>
    /\ at' = "perceived"
    /\ content' = <<>> /\ response' = <<>> /\ result' = <<>> /\ e' = <<>>
    /\ prompt' = <<>> /\ request' = <<>>
    /\ UNCHANGED <<max_steps, history, runs, pc, initial_url, outcome, raised,
                   llm_calls, scope, closed, page, in_flight, fn_call, fn_ret>>

\* Lines 158-168: the prompt, with self.history[-1] read outside the try
\* block.
ComposePrompt ==
    /\ at = "perceived"
    /\ IF history = <<>>
       THEN /\ pc' = "raised"
            /\ raised' = "IndexError"
            /\ at' = "top"
            /\ prompt' = prompt
       ELSE /\ prompt' = <<[title |-> Get(page_context[1], "title", "Unknown"),
                            url |-> Get(page_context[1], "url", "Unknown"),
                            previous_action |-> Get(Last(history), "action", EmptyDict),
                            previous_result |-> Get(Last(history), "result", EmptyDict)]>>
            /\ at' = "prompted"
            /\ UNCHANGED <<pc, raised>>
    /\ UNCHANGED <<max_steps, history, runs, initial_url, step, content, response,
                   result, e, outcome, llm_calls, scope, closed, page, page_context,
                   request, in_flight, events, fn_call, fn_ret>>

\* Line 172: the page is captured again, inside the try block.
Reperceive ==
    /\ at = "prompted"
    /\ \E fault \in CaptureFaults : page_context' = <<get_page_context(page, fault)>>
    /\ events' = Append(events, "snapshot")
    /\ at' = "reperceived"
    /\ UNCHANGED <<agent_vars, page, prompt, request, in_flight, fn_call, fn_ret>>

\* Lines 176-180: get_next_action is called with the prompt and the html
\* and screenshot of `context`.
CallDecision ==
    /\ at = "reperceived"
    /\ request' = <<[prompt |-> prompt[1],
                     html |-> Get(page_context[1], "html", None),
                     image |-> Get(page_context[1], "screenshot", None)]>>
    /\ in_flight' = in_flight \cup {"decision"}
    /\ events' = Append(events, "decide")
    /\ llm_calls' = llm_calls + 1
    /\ at' = "deciding"
    /\ UNCHANGED <<max_steps, history, runs, pc, initial_url, step, content,
                   response, result, e, outcome, raised, scope, closed, page,
                   page_context, prompt, fn_call, fn_ret>>

\* Lines 221-231, entered with the exception `cause`.
ExceptClause(cause) ==
    /\ e' = <<cause>>
    /\ at' = "top"
    /\ IF MultipleErrors(history)
       THEN /\ pc' = "returned"
            /\ outcome' = <<AbortOutcome(step, cause)>>
       ELSE Continue(step)

\* Lines 176-207: the call returns (or raises), the action type is looked
\* up and the action constructed.
DecisionReturns ==
    /\ at = "deciding"
    /\ in_flight' = in_flight \ {"decision"}
    /\ \E remote \in StepRemotes :
         LET call == get_next_action(request[1].prompt, PyValue(request[1].image),
                                     PyValue(request[1].html), remote)
         IN  /\ content' = <<remote>>
             /\ IF call.raised # None
                THEN /\ response' = <<>>
                     /\ ExceptClause(call.raised)
                ELSE /\ response' = <<call.value>>
                     /\ IF ActionType(call.value) \notin action_classes
                        THEN /\ at' = "top"
                             /\ e' = <<>>
                             /\ Continue(step)
                        ELSE IF ~BindsOk(ActionType(call.value), ActionParams(call.value))
                        THEN ExceptClause("TypeError")
                        ELSE /\ at' = "constructed"
                             /\ UNCHANGED <<e, pc, outcome>>
    /\ UNCHANGED <<max_steps, history, runs, initial_url, step, result, raised,
                   llm_calls, scope, closed, page, page_context, prompt, request,
                   events, fn_call, fn_ret>>

\* Mutant of CallExecutor: the browser call is started and not awaited.
CallExecutorNoWait ==
    /\ at = "constructed"
    /\ in_flight' = in_flight \cup {"action"}
    /\ events' = Append(events, "execute")
    /\ at' = "top"
    /\ UNCHANGED <<agent_vars, page, page_context, prompt, request, fn_call, fn_ret>>
\* Line 121: Agent.execute_action calls the browser.
CallExecutor ==
    /\ at = "constructed"
    /\ in_flight' = in_flight \cup {"action"}
    /\ events' = Append(events, "execute")
    /\ at' = "executing"
    /\ UNCHANGED <<agent_vars, page, page_context, prompt, request, fn_call, fn_ret>>

\* Line 121: the browser call returns its result.
ExecutorReturns ==
    /\ at = "executing"
    /\ in_flight' = in_flight \ {"action"}
    /\ \E env \in LoopEnvs :
         LET action == Construct(ActionType(response[1]), ActionParams(response[1]))
             call == browser_execute_action(action.action_type, action.parameters, env)
         IN  /\ call.raised = None
             /\ result' = <<call.value>>
    /\ at' = "executed"
    /\ UNCHANGED <<max_steps, history, runs, pc, initial_url, step, content,
                   response, e, outcome, raised, llm_calls, scope, closed, page,
                   page_context, prompt, request, events, fn_call, fn_ret>>

\* Lines 124-130 and 211-219: the entry is appended, and the run returns if
\* the action was terminal.
Record ==
    /\ at = "executed"
    /\ LET action == Construct(ActionType(response[1]), ActionParams(response[1]))
       IN  history' = Append(history, [step |-> EntryStep(history),
                                       action |-> to_dict(action),
                                       result |-> result[1]])
    /\ events' = Append(events, "record")
    /\ at' = "top"
    /\ IF ActionType(response[1]) \in TerminalTypes
       THEN /\ pc' = "returned"
            /\ outcome' = <<TerminalOutcome(ActionType(response[1]),
                                            ActionParams(response[1]), step)>>
       ELSE Continue(step)
    /\ UNCHANGED <<max_steps, runs, initial_url, step, content, response, result,
                   e, raised, llm_calls, scope, closed, page, page_context, prompt,
                   request, in_flight, fn_call, fn_ret>>

StepNext ==
    \/ Start
    \/ PageChanges
    \/ Perceive
    \/ ComposePrompt
    \/ Reperceive
    \/ CallDecision
    \/ DecisionReturns
    \/ CallExecutor
    \/ ExecutorReturns
    \/ Record

StepSpec == Init /\ [][StepNext]_vars

\* ------------------------------------------------ the Agent in its scope
\* The faults driver.quit() and service.stop() may raise.
CloseFaults == {None, "WebDriverException"}

\* Agent.__exit__ (lines 245-248): the with block around the Agent is left,
\* normally or by an exception of a run; the browser is closed and the
\* closing logged.
AgentExit ==
    /\ pc \in {"idle", "returned", "raised"}
    /\ scope = "held"
    /\ \E quit_fault \in CloseFaults, stop_fault \in CloseFaults :
         closed' = <<close(quit_fault, stop_fault)>>
    /\ scope' = "exited"
    /\ UNCHANGED <<max_steps, history, runs, pc, initial_url, step, content,
                   response, result, e, outcome, raised, llm_calls,
                   step_vars, fn_call, fn_ret>>

\* An Agent constructed without a with statement is let go by its caller:
\* the class has no finalizer, and Agent.run has no finally clause, so
\* nothing is called.
Discard ==
    /\ pc \in {"idle", "returned", "raised"}
    /\ scope = "held"
    /\ scope' = "dropped"
    /\ UNCHANGED <<max_steps, history, runs, pc, initial_url, step, content,
                   response, result, e, outcome, raised, llm_calls, closed,
                   step_vars, fn_call, fn_ret>>

ScopeNext ==
    \/ Start
    \/ StepPromptFault
    \/ StepSkip
    \/ StepFault
    \/ StepExecute
    \/ StepTerminal
    \/ AgentExit
    \/ Discard

ScopeSpec == Init /\ [][ScopeNext]_vars

\* ------------------------------------------- the adapters called directly
\* BrowserAgent.execute_action and LLMClient.get_next_action are public
\* operations; FnSpec calls each once on an argument tuple drawn from the
\* sets below, without an Agent run.
ExecTypes == action_classes \cup {"fly"}
ExecKwargs ==
    {EmptyDict,
     [url |-> "https://example.test/"],
     [selector |-> "#go"],
     [selector |-> "#go", text |-> "abc"],
     [direction |-> "down"],
     [direction |-> "DOWN", amount |-> 100],
     [direction |-> "sideways"],
     [seconds |-> 2],
     [seconds |-> -1],
     [selector |-> "#go", attribute |-> "href"],
     [selector |-> "#go", attribute |-> None],
     [result |-> "found it"]}
Envs == {EnvOK, EnvNoAttr, EnvTimeout, EnvCrash}

\* html: None, a page source, the empty string.  image: None, a base64
\* string, the empty string, PNG bytes, and a value that is neither str nor
\* bytes (the case of lines 117-119).
HtmlValues ==
    {NoneValue, StrValue, [type |-> "str", truthy |-> FALSE]}
ImageValues ==
    {NoneValue, StrValue,
     [type |-> "str", truthy |-> FALSE],
     [type |-> "bytes", truthy |-> TRUE],
     [type |-> "int", truthy |-> TRUE]}
FnBodies ==
    {[action |-> [action_type |-> t, parameters |-> EmptyDict], reasoning |-> "because"]
        : t \in ExecTypes}
    \cup {[action |-> [action_type |-> t, parameters |-> EmptyDict]]
            : t \in {"click", "done", "fly"}}
    \cup {[action |-> [parameters |-> EmptyDict], reasoning |-> "because"],
          [reasoning |-> "because"],
          EmptyDict}
FnRemotes ==
    {Failure(k) : k \in {"transport_error", "http_error", "no_choices",
                         "bad_json", "non_object"}}
    \cup {Json(b) : b \in FnBodies}

FnCalls ==
    {[fn |-> "execute_action", action_type |-> t, kwargs |-> k, env |-> v]
        : t \in ExecTypes, k \in ExecKwargs, v \in Envs}
    \cup {[fn |-> "get_next_action", image |-> i, html |-> h, remote |-> r]
            : i \in ImageValues, h \in HtmlValues, r \in FnRemotes}

FnInit ==
    /\ max_steps = 1
    /\ history = <<>>
    /\ runs = 0
    /\ pc = "idle"
    /\ initial_url = None
    /\ step = 0
    /\ content = <<>>
    /\ response = <<>>
    /\ result = <<>>
    /\ e = <<>>
    /\ outcome = <<>>
    /\ raised = None
    /\ llm_calls = 0
    /\ scope = "held"
    /\ closed = <<>>
    /\ page = PageA
    /\ at = "top"
    /\ page_context = <<>>
    /\ prompt = <<>>
    /\ request = <<>>
    /\ in_flight = {}
    /\ events = <<>>
    /\ fn_call \in FnCalls
    /\ fn_ret = <<>>

CallExecuteAction ==
    /\ fn_call.fn = "execute_action"
    /\ fn_ret = <<>>
    /\ fn_ret' = <<browser_execute_action(fn_call.action_type, fn_call.kwargs,
                                          fn_call.env)>>
    /\ UNCHANGED <<agent_vars, step_vars, fn_call>>

CallGetNextAction ==
    /\ fn_call.fn = "get_next_action"
    /\ fn_ret = <<>>
    /\ fn_ret' = <<get_next_action("prompt", fn_call.image, fn_call.html,
                                   fn_call.remote)>>
    /\ UNCHANGED <<agent_vars, step_vars, fn_call>>

FnNext == CallExecuteAction \/ CallGetNextAction

FnSpec == FnInit /\ [][FnNext]_vars

\* ------------------------------------------------------------------ claims
\* What the latest iteration did, read from the locals it left.
Decided == response # <<>>
Chose(action_type) == Decided /\ ActionType(response[1]) = action_type
Executed == result # <<>>
Faulted == e # <<>>
Skipped == Decided /\ ActionType(response[1]) \notin action_classes
ModelChose(action_type) ==
    /\ content # <<>>
    /\ content[1].kind = "json"
    /\ ActionType(content[1].body) = action_type
Aborted ==
    /\ pc = "returned" /\ Faulted
    /\ outcome = <<AbortOutcome(step, e[1])>>
Exhausted == pc = "returned" /\ outcome = <<ExhaustedOutcome>>

\* C1: a run that receives `done` on step n, the done action having been
\* constructed and recorded, returns at step n with success = true,
\* steps = n and the recorded action's `result` parameter as its message.
C1_DoneReturnsRecordedResult ==
    (Chose("done") /\ Executed) =>
        /\ pc = "returned"
        /\ outcome[1].success
        /\ outcome[1].steps = step
        /\ outcome[1].message = Last(history).action.parameters.result

\* C2: a step on which the model's reply chooses `impossible` ends the run
\* at that step with success = false, steps = n and the reply's `result`
\* parameter as the message.
C2_ImpossibleEndsRun ==
    ModelChose("impossible") =>
        /\ pc = "returned"
        /\ ~outcome[1].success
        /\ outcome[1].steps = step
        /\ outcome[1].message = ActionParams(content[1].body).result

\* C3: Agent.run never ends by raising an exception: whenever it has ended,
\* it has returned an outcome.
C3_RunNeverRaises ==
    /\ pc # "raised"
    /\ pc = "returned" => Len(outcome) = 1

\* C4: when the executor returns an unsuccessful result on step n and again
\* on step n+1 < max_steps, the run returns at step n+1 with success = false.
C4_TwoFailedResultsAbort ==
    [][ ( /\ pc = "loop" /\ Executed /\ ~result[1].success
          /\ step' = step + 1 /\ step' < max_steps
          /\ Executed' /\ ~result'[1].success )
        => ( /\ pc' = "returned"
             /\ ~outcome'[1].success
             /\ outcome'[1].steps = step' ) ]_vars

\* C5: a run that has ended without a terminal action and without an abort,
\* started with or without an initial_url, has returned success = false,
\* steps = max_steps and the message naming max_steps.
C5_ExhaustionOutcome ==
    ( /\ pc \in {"returned", "raised"}
      /\ ~(Executed /\ ActionType(response[1]) \in TerminalTypes)
      /\ ~Aborted )
    => ( /\ pc = "returned"
         /\ outcome[1] = [success |-> FALSE,
                          message |-> "Reached maximum number of steps ("
                                        \o ToString(max_steps)
                                        \o ") without completing the task",
                          steps |-> max_steps] )

\* C6: an iteration whose action type is outside the vocabulary appends no
\* history entry, does not call the executor and is no fault; after it, and
\* after an iteration that executed a non-terminal action with success, the
\* run goes on to the next step, or ends exhausted when it was step max_steps.
C6_SkipIsNeutral ==
    [][ /\ (step' = step + 1 /\ Skipped')
           => history' = history /\ ~Executed' /\ ~Faulted'
        /\ ( /\ step' = step + 1
             /\ \/ Skipped'
                \/ /\ Executed' /\ result'[1].success
                   /\ ActionType(response'[1]) \notin TerminalTypes )
           => IF step' < max_steps THEN pc' = "loop" ELSE Exhausted' ]_vars
C6_Witness ==
    /\ Exhausted /\ Skipped /\ step >= 3
    /\ Len(history) >= 2 /\ Last(history).result.success

\* C7: the step indices of the history are 1..k in order, and every step of
\* the program only appends to the history.
C7_HistoryAppendOnly ==
    /\ [](\A i \in 1..Len(history) : history[i].step = i)
    /\ [][ /\ Len(history') >= Len(history)
           /\ SubSeq(history', 1, Len(history)) = history ]_vars
C7_Witness == Len(history) >= 3 /\ runs = 2

\* C8: a faulted step whose immediately preceding loop step did not fail
\* (for step 1: whose initial navigation did not fail) never aborts the run.
PrecedingFailed ==
    IF step = 0
    THEN history # <<>> /\ ~Last(history).result.success
    ELSE Faulted \/ (Executed /\ ~result[1].success)
C8_SingleFaultNeverAborts ==
    [][ (pc = "loop" /\ step' = step + 1 /\ Faulted' /\ ~PrecedingFailed)
        => ~Aborted' ]_vars

\* C9: BrowserAgent.execute_action never raises, and a fault thrown by the
\* driver operation it invokes comes back as a result with success = false
\* whose message carries the cause.
DriverFault(call) ==
    /\ call.env.fault # None
    /\ \/ /\ call.action_type \in {"navigate", "click", "type", "extract"}
          /\ MissingKey(call.kwargs,
                 CASE call.action_type = "navigate" -> <<"url">>
                   [] call.action_type = "type" -> <<"selector", "text">>
                   [] OTHER -> <<"selector">>) = None
       \/ /\ call.action_type = "scroll"
          /\ Lower(Get(call.kwargs, "direction", "down"))
                 \in {"down", "up", "right", "left"}
C9_ExecutorContainsFaults ==
    (fn_call.fn = "execute_action" /\ fn_ret # <<>>) =>
        /\ fn_ret[1].raised = None
        /\ DriverFault(fn_call) =>
             /\ ~fn_ret[1].value.success
             /\ fn_ret[1].value.message =
                  "Error executing " \o fn_call.action_type \o ": " \o fn_call.env.fault

\* C10: LLMClient.get_next_action never raises and always returns a record
\* with an action carrying an action_type, and a reasoning.
C10_DecisionClientTotal ==
    (fn_call.fn = "get_next_action" /\ fn_ret # <<>>) =>
        /\ fn_ret[1].raised = None
        /\ "action" \in DOMAIN fn_ret[1].value
        /\ "action_type" \in DOMAIN fn_ret[1].value.action
        /\ "reasoning" \in DOMAIN fn_ret[1].value

\* C11: an iteration on which the Decision Client answers with the synthetic
\* "error" action constructs and executes nothing, appends nothing to the
\* history, raises nothing, and the run goes on to the next step, or ends
\* exhausted when it was step max_steps.
C11_ErrorActionSkipped ==
    [][ (step' = step + 1 /\ Chose("error")')
        => /\ history' = history
           /\ ~Executed' /\ ~Faulted'
           /\ pc' # "raised" /\ raised' = raised
           /\ IF step' < max_steps THEN pc' = "loop" ELSE Exhausted' ]_vars
C11_Witness ==
    /\ Chose("error") /\ content[1].kind = "transport_error"
    /\ pc = "loop" /\ step >= 1 /\ ~Executed /\ ~Faulted

\* C12: a step whose decision call failed (transport or parse fault) right
\* after a step whose executed action returned success = false, with steps
\* left, aborts the run at that step.
DecisionFault ==
    /\ content # <<>>
    /\ content[1].kind \in {"transport_error", "bad_json"}
C12_DecisionFaultCountsAsFailure ==
    [][ ( /\ pc = "loop" /\ Executed /\ ~result[1].success
          /\ step' = step + 1 /\ step' < max_steps
          /\ DecisionFault' )
        => ( /\ pc' = "returned"
             /\ ~outcome'[1].success
             /\ outcome'[1].steps = step' ) ]_vars

\* C13: a step on which the model suggests a known action type whose
\* parameters do not bind to the constructor is no fault and never aborts
\* the run.
MalformedParams ==
    /\ Decided
    /\ ActionType(response[1]) \in action_classes
    /\ ~BindsOk(ActionType(response[1]), ActionParams(response[1]))
C13_MalformedParamsNeverAbort ==
    [][ (step' = step + 1 /\ MalformedParams')
        => (history' = history /\ ~Aborted') ]_vars

\* C14: every recorded action has its type in the eight-member vocabulary,
\* and each of the eight kinds is constructible: a reply choosing any of
\* them with parameters that bind is constructed, executed and recorded.
C14_ClosedVocabulary ==
    /\ \A i \in 1..Len(history) :
         history[i].action.action_type \in action_classes
    /\ \A t \in action_classes :
         (ModelChose(t) /\ BindsOk(t, ActionParams(content[1].body)))
           => /\ Executed
              /\ Last(history).action.action_type = t

\* C15 as stated: the initial navigation is recorded with step index 0.
C15_InitialNavigationIsStepZero ==
    (pc = "loop" /\ step = 0 /\ initial_url \notin {None, ""})
      => Last(history).step = 0
\* C15: when an initial_url is supplied, the initial navigation is executed
\* and recorded before the first decision, as the latest history entry,
\* with the next history index as its step: 1 on a fresh Agent.
C15_InitialNavigationRecorded ==
    (pc = "loop" /\ step = 0 /\ initial_url \notin {None, ""})
      => /\ content = <<>>
         /\ history # <<>>
         /\ Last(history).action = to_dict(NavigateAction(initial_url))
         /\ Last(history).step = Len(history)
         /\ runs = 1 => Last(history).step = 1
C15_Witness ==
    /\ pc = "loop" /\ step = 0 /\ runs = 1
    /\ initial_url = "https://example.test/"
    /\ Len(history) = 1 /\ history[1].result.success

\* C16 as stated: once the caller is done with an Agent that has run, the
\* browser has been closed, and close did not raise.
C16_BrowserReleasedOnEveryExit ==
    (scope # "held" /\ runs >= 1)
      => (closed # <<>> /\ closed[1].raised = None)
\* C16: when the Agent is used as a context manager, leaving the with block
\* closes the browser whichever way its runs ended, a run that has ended
\* never blocks the exit, and close never raises.
C16_ContextManagerReleasesBrowser ==
    /\ scope = "exited" => closed # <<>>
    /\ closed # <<>> => closed[1].raised = None
    /\ (scope = "held" /\ pc \in {"returned", "raised"}) => ENABLED AgentExit
C16_Witness ==
    /\ scope = "exited" /\ pc = "raised" /\ runs = 2
    /\ closed # <<>>

C18_SuccessIffDoneExecuted ==
    pc = "returned" =>
        /\ Len(outcome) = 1
        /\ outcome[1].success <=> (Chose("done") /\ Executed)
C18_Witness ==
    /\ pc = "returned" /\ outcome[1].success
    /\ step >= 2 /\ runs = 2

\* C19: a run makes at most max_steps iterations and at most max_steps calls
\* of the Decision Client, never changes max_steps, is over once step
\* max_steps is done, and starts no step once it has ended.
C19_RunWithinStepBudget ==
    /\ [](/\ step <= max_steps
          /\ llm_calls <= step
          /\ pc = "loop" => step < max_steps)
    /\ [][max_steps' = max_steps]_vars
    /\ [][ (pc = "returned" \/ pc = "raised")
           => ( \/ step' = step /\ llm_calls' = llm_calls /\ history' = history
                \/ runs' = runs + 1 /\ step' = 0 /\ llm_calls' = 0 ) ]_vars
C19_Witness ==
    /\ Exhausted /\ max_steps = 3
    /\ step = max_steps /\ llm_calls = max_steps

\* C20: LLMClient.get_next_action answers with the synthetic "error" action
\* exactly when the exchange failed, the reply did not parse, or the reply's
\* action_type is outside the eight kinds; a reply with one of the eight
\* kinds is returned unchanged.
C20_ErrorIffFaultOrUnknownType ==
    ( /\ fn_call.fn = "get_next_action"
      /\ fn_ret # <<>>
      /\ fn_ret[1].raised = None )
    => LET remote == fn_call.remote
           value == fn_ret[1].value
       IN  /\ ActionType(value) = "error"
                <=> \/ remote.kind # "json"
                    \/ ActionType(remote.body) \notin action_classes
           /\ ( /\ remote.kind = "json"
                /\ ActionType(remote.body) \in action_classes )
              => value = remote.body

\* C22: every run starts from an empty history: when the loop of a run
\* begins, the history holds the entry of this run's initial navigation and
\* nothing else.
C22_RunStartsFromEmptyHistory ==
    (pc = "loop" /\ step = 0)
      => Len(history) = (IF initial_url \notin {None, ""} THEN 1 ELSE 0)

\* C25: a scroll whose direction is none of up, down, left, right is never
\* constructed, executed or recorded, and a recorded scroll built without
\* an amount carries amount 300.
C25_ScrollDirectionValidated ==
    /\ \A i \in 1..Len(history) :
         history[i].action.action_type = "scroll"
           => /\ history[i].action.parameters.direction
                   \in {"up", "down", "left", "right"}
              /\ "amount" \in DOMAIN history[i].action.parameters
    /\ ( /\ ModelChose("scroll") /\ Executed
         /\ "amount" \notin DOMAIN ActionParams(content[1].body) )
       => Last(history).action.parameters.amount = 300

\* The arguments and the fixture of a direct extract call.
ExtractCall ==
    /\ fn_call.fn = "execute_action"
    /\ fn_call.action_type = "extract"
    /\ "selector" \in DOMAIN fn_call.kwargs
    /\ fn_ret # <<>>
AttributeGiven == Get(fn_call.kwargs, "attribute", None) \notin {None, ""}
\* C26 as stated: whenever the selector matches an element the extract
\* succeeds with the element's text or the named attribute's value, and
\* when it matches nothing the result has success = false; no exception
\* escapes.
C26_ExtractRoundTrip ==
    ExtractCall =>
        /\ fn_ret[1].raised = None
        /\ fn_call.env.fault = None
             => /\ fn_ret[1].value.success
                /\ fn_ret[1].value.data.value =
                     (IF AttributeGiven THEN fn_call.env.attr ELSE fn_call.env.text)
        /\ fn_call.env.fault = "TimeoutException" => ~fn_ret[1].value.success
\* C26: when the selector matches an element, extract succeeds with the
\* element's text (no attribute named) or with the named attribute's value
\* provided the element has that attribute, and fails with value None when
\* it has not; when the selector matches nothing the result has
\* success = false in both cases; no exception escapes.
C26_ExtractRoundTripWhenPresent ==
    ExtractCall =>
        /\ fn_ret[1].raised = None
        /\ (fn_call.env.fault = None /\ ~AttributeGiven)
             => /\ fn_ret[1].value.success
                /\ fn_ret[1].value.data.value = fn_call.env.text
        /\ (fn_call.env.fault = None /\ AttributeGiven)
             => /\ fn_ret[1].value.success <=> fn_call.env.attr # None
                /\ fn_ret[1].value.data.value = fn_call.env.attr
        /\ fn_call.env.fault = "TimeoutException" => ~fn_ret[1].value.success
C26_Witness ==
    /\ ExtractCall /\ AttributeGiven
    /\ fn_call.env.fault = None /\ fn_call.env.attr # None
    /\ fn_ret[1].value.success /\ fn_ret[1].value.data.value = "/next"

C28_HistoryBoundedBySteps ==
    /\ Len(history) <= step + (IF initial_url \notin {None, ""} THEN 1 ELSE 0)
    /\ pc = "returned" => outcome[1].steps >= Len(history) - 1

\* C29: a step that faults leaves the history unchanged, a step appends at
\* most one entry, and every history entry has an action and a result.
C29_FaultLeavesHistoryUnchanged ==
    /\ [](\A i \in 1..Len(history) :
            {"action", "result"} \subseteq DOMAIN history[i])
    /\ [][ /\ (step' = step + 1 /\ Faulted') => history' = history
           /\ Len(history') <= Len(history) + 1
           /\ Len(history') = Len(history) + 1
                => (Executed' \/ step' = 0) ]_vars
C29_Witness ==
    /\ Faulted /\ pc = "loop" /\ step >= 2
    /\ Len(history) >= 2

\* C21: on every step the prompt is composed with the action and result of
\* the latest history entry, both empty when there is none, and the step
\* goes on to the Decision Client.
C21_PromptCarriesPreviousEntry ==
    [][ (at = "perceived" /\ at' # at)
        => /\ pc' = "loop"
           /\ at' = "prompted"
           /\ prompt'[1].previous_action =
                (IF history = <<>> THEN EmptyDict ELSE Last(history).action)
           /\ prompt'[1].previous_result =
                (IF history = <<>> THEN EmptyDict ELSE Last(history).result) ]_vars

\* C23: the events of a step occur in the order snapshot, decide, execute,
\* record; a snapshot is taken with no call in flight and after the
\* previous step's result was recorded; never are two calls in flight.
StepOrder == <<"snapshot", "snapshot", "decide", "execute", "record">>
C24_RequestFromOneSnapshot ==
    request # <<>> =>
        \E p \in Pages :
            /\ request[1].prompt.title \in {p.title, "Unknown"}
            /\ request[1].prompt.url \in {p.url, "unknown"}
            /\ request[1].html \in {p.html, None}
            /\ request[1].image \in {p.screenshot, None}

====
